---- MODULE Spec2Model ----
(***************************************************************************)
(* Submission lifecycle of the helpdesk application (contact_helpdesk.py,  *)
(* google_rag_query.py).  The state is the contact_queue table, the forms  *)
(* that browser sessions have rendered (each holding the row it was        *)
(* rendered from) and the position of every running on_click handler.      *)
(* Every statement that commits to the database is one step, so handlers   *)
(* of different sessions interleave between commits.                       *)
(***************************************************************************)
EXTENDS Integers, Sequences, FiniteSets, TLC

\* ------------------------------------------------------------------ bounds
MaxSubs == 1        \* rows the contact form may insert
NumSessions == 2    \* browser sessions of the application
MaxEmails == 1      \* e-mails handed to the mail service
MaxEvents == 1      \* evaluation events handed to the telemetry service

Sessions == 1..NumSessions

\* ------------------------------------------------------------------ values
NULL == "NULL"                       \* SQL NULL / Python None of a text column
truthy(x) == x \notin {NULL, ""}     \* Python truth value of a text column

slider_min == 1
slider_max == 5

\* A Python dict is the sequence of its <<key, value>> items in insertion order
\* (the order json.dumps writes them in); == on dicts compares the items as a set.
EmptyMap == << >>                    \* the Python dict {}
dict_keys(m) == {m[j][1] : j \in DOMAIN m}
dict_items(m) == {m[j] : j \in DOMAIN m}
dict_has(m, key) == key \in dict_keys(m)
dict_get(m, key) == m[CHOOSE j \in DOMAIN m : m[j][1] = key][2]
dict_eq(m1, m2) == dict_items(m1) = dict_items(m2)

\* Payload column: NULL, the JSON text of a flat map (its items in the order
\* written), or text json cannot parse.
PayloadNull == [kind |-> "null", map |-> EmptyMap]
PayloadBad == [kind |-> "bad", map |-> EmptyMap]
json_dumps(m) == [kind |-> "json", map |-> m]
json_parses(p) == p.kind = "json"
json_loads(p) == p.map

\* payload[key] = value on a Python dict
dict_set_only(m, key, value) == << <<key, value>> >>
dict_set(m, key, value) ==
  IF dict_has(m, key)
    THEN [j \in DOMAIN m |-> IF m[j][1] = key THEN <<key, value>> ELSE m[j]]
    ELSE Append(m, <<key, value>>)

Status_Default == "New"

\* Inputs of the contact form ("" is a field left blank).
ContactTypes == {"", "Claim"}
Names == {"", "Ann"}
Emails == {"", "ann@example.com"}
Questions == {"", "What is my deductible?"}
DatesOfBirth == {"1980-01-01"}       \* st.date_input always holds a date

\* What the external services may answer.
Contexts == {<< >>, <<"passage1", "passage2">>}
\* get_member_data: the member's record, or {} when none is found or the lookup fails
KnownInfos == {"{}", "member"}
Generations == {<<"answer1", "trace1">>, <<"", "trace2">>}
FinalTexts == {"", "final1"}
\* the slider positions a reviewer is taken to choose: both ends of its range
Scores == {slider_min, slider_max}

VARIABLES
  contact_queue,   \* the table: row i is the submission with Contact_ID i
  sess,            \* per browser session: rendered form and running handler
  outbox,          \* e-mails sent through send_email_via_sendgrid, in order
  baserun,         \* evaluation events sent to the telemetry service, in order
  Member_Data      \* the member reference table that get_member_data reads

vars == <<contact_queue, sess, outbox, baserun, Member_Data>>

\* ------------------------------------------------------------------ store
\* INSERT INTO contact_queue (...) VALUES (...): columns not named take their default
NewRow(contact_type, fname, lname, email, dob, comment, date) ==
  [ Contact_Type |-> contact_type, Contact_Fname |-> fname, Contact_Lname |-> lname,
    Contact_Email |-> email, Contact_DOB |-> dob, Contact_Question |-> comment,
    Contact_Response |-> NULL, Final_Prompt |-> << >>, Final_Response |-> NULL,
    Evaluation |-> {}, Creation_Date |-> date, Processed_Date |-> {},
    Status |-> Status_Default, Payload |-> PayloadNull ]

insert_submission(table, contact_type, fname, lname, email, dob, comment, date) ==
  Append(table, NewRow(contact_type, fname, lname, email, dob, comment, date))

\* UPDATE contact_queue SET field = value WHERE Contact_ID = id (no row: nothing happens)
update_submission(table, id, field_name, input_value) ==
  IF id \in DOMAIN table
    THEN [table EXCEPT ![id] = [@ EXCEPT ![field_name] = input_value]]
    ELSE table

\* SELECT * FROM contact_queue WHERE Status <> 'Closed'
fetch_waiting_submissions(table) ==
  {i \in DOMAIN table : table[i].Status # "Closed"}

\* ------------------------------------------------------------------ pure helpers
\* the closure e-mail: the fields the template embeds, in order
return_template(submission_details, response) ==
  << submission_details.Contact_Fname, submission_details.Contact_Lname,
     submission_details.Contact_Question, response >>

\* query_corpus asks for the similarity_top_k nearest passages
similarity_top_k == 3

\* rag_reply taken from the end of the list
rag_reply_last(contexts_list) ==
  IF contexts_list # << >> THEN contexts_list[Len(contexts_list)] ELSE ""
\* rag_reply: the first retrieved context, or "" when there is none
rag_reply(contexts_list) ==
  IF contexts_list # << >> THEN contexts_list[1] ELSE ""

\* get_rag_prompt with the member's data left out of the context block
get_rag_prompt_no_member(contexts_list, known_info, myquestion) ==
  << "system_list", "Context:", rag_reply(contexts_list), "{}",
     "Question:", myquestion, "Answer:" >>
\* full_prompt = ' '.join(system_list) + prompt
get_rag_prompt(contexts_list, known_info, myquestion) ==
  << "system_list", "Context:", rag_reply(contexts_list), known_info,
     "Question:", myquestion, "Answer:" >>

\* the rows of Member_Data: one member, who is the person of the contact form
MemberRows == { [Email_Address |-> "ann@example.com", Member_Name |-> <<"Ann", "Ann">>] }

\* get_member_data: SELECT * FROM Member_Data WHERE Email_Address = email OR
\* Member_Name = name; the first row found, {} when there is none or the lookup
\* raises. The set of the values one call may return.
get_member_data(members, record_dict) ==
  {"{}"} \cup
  { "member" : m \in { r \in members :
                         \/ r.Email_Address = record_dict.Contact_Email
                         \/ r.Member_Name = <<record_dict.Contact_Fname,
                                               record_dict.Contact_Lname>> } }

\* ------------------------------------------------------------------ sessions
NoRow == NewRow("", "", "", "", "", "", 0)

\* the columns of the fetched row that the form and its handlers read
submission_details_of(row) ==
  [ Contact_Fname |-> row.Contact_Fname, Contact_Lname |-> row.Contact_Lname,
    Contact_Question |-> row.Contact_Question, Contact_Response |-> row.Contact_Response,
    Final_Response |-> row.Final_Response, Payload |-> row.Payload ]

Idle == [ pc |-> "idle", id |-> 0, submission_details |-> submission_details_of(NoRow),
          contexts_list |-> << >>, known_info |-> "{}",
          prompt |-> << >>, response |-> NULL, trace_id |-> NULL,
          payload |-> EmptyMap, final |-> NULL, slider |-> {},
          result |-> "none", wrote |-> {},
          status0 |-> Status_Default, call |-> "none" ]

Init ==
  /\ contact_queue = << >>
  /\ sess = [s \in Sessions |-> Idle]
  /\ outbox = << >>
  /\ Member_Data = MemberRows
  /\ baserun = << >>

\* member_contact_form without the test of line 376
member_contact_form_unchecked ==
  /\ Len(contact_queue) < MaxSubs
  /\ \E contact_type \in ContactTypes, fname \in Names, lname \in Names,
        email \in Emails, dob \in DatesOfBirth, comment \in Questions :
       contact_queue' =
         insert_submission(contact_queue, contact_type, fname, lname, email,
                           dob, comment, Len(contact_queue) + 1)
  /\ UNCHANGED <<sess, outbox, baserun, Member_Data>>

\* member_contact_form: the row is inserted only when every field is filled in
member_contact_form ==
  /\ Len(contact_queue) < MaxSubs
  /\ \E contact_type \in ContactTypes, fname \in Names, lname \in Names,
        email \in Emails, dob \in DatesOfBirth, comment \in Questions :
       contact_queue' =
         IF contact_type # "" /\ fname # "" /\ lname # "" /\ email # "" /\ comment # ""
           THEN insert_submission(contact_queue, contact_type, fname, lname, email,
                                  dob, comment, Len(contact_queue) + 1)
           ELSE contact_queue
  /\ UNCHANGED <<sess, outbox, baserun, Member_Data>>

\* display_submissions + load_submission_details: the session picks a waiting
\* submission; the form is rendered from the row as fetched now
load_submission_details(s) ==
  /\ sess[s].pc \in {"idle", "form"}
  /\ \E id \in fetch_waiting_submissions(contact_queue) :
       sess' = [sess EXCEPT ![s] =
                  [Idle EXCEPT !.pc = "form", !.id = id,
                               !.submission_details = submission_details_of(contact_queue[id])]]
  /\ UNCHANGED <<contact_queue, outbox, baserun, Member_Data>>

\* which widgets load_submission_details renders
has_close_button(d) == truthy(d.Final_Response)
has_get_button(d) == ~truthy(d.Final_Response) /\ ~truthy(d.Contact_Response)
has_slider(d) == ~truthy(d.Final_Response) /\ truthy(d.Contact_Response)
has_submit_button(d) == ~truthy(d.Final_Response)

\* A handler's local that is not read again is reset when its last use has passed
\* (response after line 103, prompt after line 104, the form's row once the handler
\* has taken what it reads from it).
forget_row(r) == [r EXCEPT !.submission_details = Idle.submission_details]

\* one session's record with some fields replaced
step(s, r) == [sess EXCEPT ![s] = r]
done(s, result) == [Idle EXCEPT !.id = sess[s].id, !.result = result]
\* history: the stored Status when the handler was invoked
invoked(s, r) == [r EXCEPT !.status0 = contact_queue[sess[s].id].Status]

\* ------------------------------------------------------------------ clicked_close_submission
\* line 52: the status is written first
close_L52(s) ==
  /\ sess[s].pc = "form"
  /\ has_close_button(sess[s].submission_details)
  /\ Len(outbox) < MaxEmails
  /\ contact_queue' = update_submission(contact_queue, sess[s].id, "Status", "Closed")
  /\ sess' = step(s, invoked(s, [sess[s] EXCEPT !.pc = "L53", !.wrote = {"Status"}]))
  /\ UNCHANGED <<outbox, baserun, Member_Data>>

\* lines 53-57: the e-mail is rendered from the form's row and handed to the mail
\* service, which delivers it or fails
close_L53(s) ==
  /\ sess[s].pc = "L53"
  /\ \E delivered \in BOOLEAN :
       LET d == sess[s].submission_details
           email_body == return_template(d, d.Final_Response)
       IN IF delivered
            THEN /\ outbox' = Append(outbox, [id |-> sess[s].id, body |-> email_body])
                 /\ sess' = step(s, done(s, "ok"))
            ELSE /\ outbox' = outbox
                 /\ sess' = step(s, done(s, "NotificationError"))
  /\ UNCHANGED <<contact_queue, baserun, Member_Data>>

\* ------------------------------------------------------------------ clicked_get_openai
\* get_L99 with the status written before the services are called
get_L99_status_first(s) ==
  /\ sess[s].pc = "form"
  /\ has_get_button(sess[s].submission_details)
  /\ contact_queue' = update_submission(contact_queue, sess[s].id, "Status", "Processed")
  /\ \E failure \in {"none", "KeyError", "RetrievalError", "GenerationError"},
        contexts_list \in Contexts, known_info \in get_member_data(Member_Data, contact_queue[sess[s].id]), g \in Generations :
       sess' = step(s,
         IF failure # "none"
           THEN done(s, failure)
           ELSE invoked(s, [forget_row(sess[s]) EXCEPT
                   !.pc = "L103",
                   !.contexts_list = contexts_list, !.known_info = known_info,
                   !.prompt = get_rag_prompt(contexts_list, known_info,
                                contact_queue[sess[s].id].Contact_Question),
                   !.response = g[1], !.trace_id = g[2]]))
  /\ UNCHANGED <<outbox, baserun, Member_Data>>

\* lines 96-101: get_rag_prompt loads the row, the member data and the corpus
\* contexts, then the generation service is called; an exception of any of them
\* leaves the handler
get_L99(s) ==
  /\ sess[s].pc = "form"
  /\ has_get_button(sess[s].submission_details)
  /\ \E failure \in {"none", "KeyError", "RetrievalError", "GenerationError"},
        contexts_list \in Contexts, known_info \in get_member_data(Member_Data, contact_queue[sess[s].id]), g \in Generations :
       sess' = step(s,
         IF failure # "none"
           THEN done(s, failure)
           ELSE invoked(s, [forget_row(sess[s]) EXCEPT
                   !.pc = "L103",
                   !.contexts_list = contexts_list, !.known_info = known_info,
                   !.prompt = get_rag_prompt(contexts_list, known_info,
                                contact_queue[sess[s].id].Contact_Question),
                   !.response = g[1], !.trace_id = g[2]]))
  /\ UNCHANGED <<contact_queue, outbox, baserun, Member_Data>>

get_L103(s) ==
  /\ sess[s].pc = "L103"
  /\ contact_queue' =
       update_submission(contact_queue, sess[s].id, "Contact_Response", sess[s].response)
  /\ sess' = step(s, [sess[s] EXCEPT !.pc = "L104", !.response = NULL,
                             !.contexts_list = << >>, !.known_info = "{}",
                             !.wrote = @ \cup {"Contact_Response"}])
  /\ UNCHANGED <<outbox, baserun, Member_Data>>

\* get_L104 with the head of the prompt stored over the question
get_L104_question(s) ==
  /\ sess[s].pc = "L104"
  /\ contact_queue' =
       update_submission(contact_queue, sess[s].id, "Contact_Question", sess[s].prompt[1])
  /\ sess' = step(s, [sess[s] EXCEPT !.pc = "L105", !.prompt = << >>,
                             !.wrote = @ \cup {"Final_Prompt"}])
  /\ UNCHANGED <<outbox, baserun, Member_Data>>

get_L104(s) ==
  /\ sess[s].pc = "L104"
  /\ contact_queue' =
       update_submission(contact_queue, sess[s].id, "Final_Prompt", sess[s].prompt)
  /\ sess' = step(s, [sess[s] EXCEPT !.pc = "L105", !.prompt = << >>,
                             !.wrote = @ \cup {"Final_Prompt"}])
  /\ UNCHANGED <<outbox, baserun, Member_Data>>

get_L105(s) ==
  /\ sess[s].pc = "L105"
  /\ contact_queue' = update_submission(contact_queue, sess[s].id, "Status", "Processed")
  /\ sess' = step(s, [sess[s] EXCEPT !.pc = "L106_select", !.wrote = @ \cup {"Status"}])
  /\ UNCHANGED <<outbox, baserun, Member_Data>>

\* ------------------------------------------------------------------ update_submission_payload
\* the key and value of the call the handler is in (lines 106 and 107)
payload_key(r) == IF r.pc \in {"L106_select", "L106_update"} THEN "llm" ELSE "trace_id"
payload_value_tag(r) == "openai"
payload_value(r) == IF r.pc \in {"L106_select", "L106_update"} THEN "openai" ELSE r.trace_id

\* lines 433-440: SELECT Payload, then json.loads unless the column is empty
update_submission_payload_select(s) ==
  /\ sess[s].pc \in {"L106_select", "L107_select"}
  /\ LET p == contact_queue[sess[s].id].Payload
     IN sess' = step(s,
          IF p.kind = "null"
            THEN [sess[s] EXCEPT !.payload = EmptyMap,
                    !.pc = IF @ = "L106_select" THEN "L106_update" ELSE "L107_update"]
          ELSE IF json_parses(p)
            THEN [sess[s] EXCEPT !.payload = json_loads(p),
                    !.pc = IF @ = "L106_select" THEN "L106_update" ELSE "L107_update"]
            ELSE done(s, "JSONDecodeError"))
  /\ UNCHANGED <<contact_queue, outbox, baserun, Member_Data>>

\* lines 441-445: set the key in the map read before and write the whole map back
update_submission_payload_update(s) ==
  /\ sess[s].pc \in {"L106_update", "L107_update"}
  /\ LET payload == dict_set(sess[s].payload, payload_key(sess[s]), payload_value(sess[s]))
     IN contact_queue' =
          update_submission(contact_queue, sess[s].id, "Payload", json_dumps(payload))
  /\ sess' = step(s,
       IF sess[s].pc = "L106_update"
         THEN [sess[s] EXCEPT !.pc = "L107_select", !.wrote = @ \cup {"Payload"}]
         ELSE done(s, "ok"))
  /\ UNCHANGED <<outbox, baserun, Member_Data>>

\* ------------------------------------------------------------------ clicked_submit_response
model_name == "gemini-1.5-pro-001"

\* lines 124-131: the payload of the form's row, {} when empty or not parseable
submit_payload(d) ==
  IF d.Payload.kind = "json" THEN json_loads(d.Payload) ELSE EmptyMap

\* lines 140-143: which evaluation event is sent
baserun_event(payload, prompt, response, evaluation) ==
  IF dict_has(payload, "llm") /\ dict_get(payload, "llm") = "openai"
    THEN << "tag", evaluation, payload >>
    ELSE << "generic", model_name, prompt, response, evaluation >>

\* what the reviewer may leave in the text area: its initial value or an edit
final_inputs(d) == FinalTexts \cup {d.Contact_Response}
\* slider_inputs of a slider that also offers the value above max_value
slider_inputs_above(d) ==
  IF has_slider(d) THEN {{v} : v \in Scores \cup {slider_max + 1}} ELSE {{}}
\* the slider's value, when the form has a slider
slider_inputs(d) == IF has_slider(d) THEN {{v} : v \in Scores} ELSE {{}}

\* lines 124-133: Final_Response takes the text area's content
submit_L133(s) ==
  /\ sess[s].pc = "form"
  /\ has_submit_button(sess[s].submission_details)
  /\ Len(baserun) < MaxEvents
  /\ \E final \in final_inputs(sess[s].submission_details),
        slider \in slider_inputs(sess[s].submission_details) :
       /\ contact_queue' =
            update_submission(contact_queue, sess[s].id, "Final_Response", final)
       /\ sess' = step(s, [forget_row(sess[s]) EXCEPT !.pc = "L134", !.final = final,
                             !.slider = slider, !.wrote = {"Final_Response"},
                             !.payload = submit_payload(sess[s].submission_details)])
  /\ UNCHANGED <<outbox, baserun, Member_Data>>

\* submit_L134 with the review also recorded in Status
submit_L134_reviewed(s) ==
  /\ sess[s].pc = "L134"
  /\ IF sess[s].slider = {}
       THEN /\ contact_queue' = contact_queue
            /\ sess' = step(s, done(s, "KeyError"))
       ELSE /\ contact_queue' =
                 update_submission(
                   update_submission(contact_queue, sess[s].id, "Evaluation", sess[s].slider),
                   sess[s].id, "Status", "Reviewed")
            /\ sess' = step(s, [sess[s] EXCEPT !.pc = "L137", !.wrote = @ \cup {"Evaluation"}])
  /\ UNCHANGED <<outbox, baserun, Member_Data>>

\* lines 134-135: st.session_state[slider_key] raises KeyError when the form had no
\* slider; otherwise Evaluation takes the slider's value
submit_L134(s) ==
  /\ sess[s].pc = "L134"
  /\ IF sess[s].slider = {}
       THEN /\ contact_queue' = contact_queue
            /\ sess' = step(s, done(s, "KeyError"))
       ELSE /\ contact_queue' =
                 update_submission(contact_queue, sess[s].id, "Evaluation", sess[s].slider)
            /\ sess' = step(s, [sess[s] EXCEPT !.pc = "L137", !.wrote = @ \cup {"Evaluation"}])
  /\ UNCHANGED <<outbox, baserun, Member_Data>>

\* lines 332-334 and 351: the handler's prompt argument is what st.markdown returned
\* when the form was rendered, the element's handle, not the prompt's text
DeltaGenerator == << "DeltaGenerator" >>

\* lines 137-144: the evaluation event
submit_L137(s) ==
  /\ sess[s].pc = "L137"
  /\ baserun' = Append(baserun,
       baserun_event(sess[s].payload, DeltaGenerator, sess[s].final, sess[s].slider))
  \* st.session_state keeps the text area's and the slider's value of the review
  /\ sess' = step(s, [done(s, "ok") EXCEPT !.final = sess[s].final,
                                           !.slider = sess[s].slider])
  /\ UNCHANGED <<contact_queue, outbox, Member_Data>>

Next ==
  \/ member_contact_form
  \/ \E s \in Sessions :
       \/ load_submission_details(s)
       \/ close_L52(s)
       \/ close_L53(s)
       \/ get_L99(s)
       \/ get_L103(s)
       \/ get_L104(s)
       \/ get_L105(s)
       \/ update_submission_payload_select(s)
       \/ update_submission_payload_update(s)
       \/ submit_L133(s)
       \/ submit_L134(s)
       \/ submit_L137(s)

Spec == Init /\ [][Next]_vars

\* One operation at a time: a single browser session is open, so every handler
\* runs from its first line to its last before the next form is rendered.
NotOpen == [Idle EXCEPT !.pc = "not open"]

InitSolo ==
  /\ contact_queue = << >>
  /\ sess \in {[s \in Sessions |-> IF s = o THEN Idle ELSE NotOpen] : o \in Sessions}
  /\ outbox = << >>
  /\ Member_Data = MemberRows
  /\ baserun = << >>

SpecSolo == InitSolo /\ [][Next]_vars

\* ------------------------------------------------------------------ the store functions called directly
\* update_submission_payload and update_submission as functions of the table:
\* each call runs from its first line to its last with no other writer in between
\* (one caller), on any id, also one the table does not hold.

\* the exception update_submission_payload ends with, "none" when it returns
update_submission_payload_raises(table, id) ==
  IF id \notin DOMAIN table THEN "ValueError"                  \* lines 448-451
  ELSE IF table[id].Payload.kind = "null" THEN "none"          \* lines 439-440
  ELSE IF json_parses(table[id].Payload) THEN "none"           \* line 438
  ELSE "JSONDecodeError"                                       \* line 438, not caught

\* update_submission_payload with a row that has one key more, in place of the error
update_submission_payload_upsert(table, id, key, value) ==
  IF update_submission_payload_raises(table, id) = "ValueError"
    THEN Append(table, [NoRow EXCEPT !.Payload = json_dumps(dict_set(EmptyMap, key, value))])
  ELSE IF update_submission_payload_raises(table, id) # "none" THEN table
  ELSE LET payload == IF table[id].Payload.kind = "null"
                        THEN EmptyMap ELSE json_loads(table[id].Payload)
       IN update_submission(table, id, "Payload", json_dumps(dict_set(payload, key, value)))
\* the table update_submission_payload leaves
update_submission_payload(table, id, key, value) ==
  IF update_submission_payload_raises(table, id) # "none" THEN table
  ELSE LET payload == IF table[id].Payload.kind = "null"
                        THEN EmptyMap ELSE json_loads(table[id].Payload)
       IN update_submission(table, id, "Payload", json_dumps(dict_set(payload, key, value)))

\* update_submission has no raise and no check of the rows the UPDATE matched
update_submission_raises(table, id) == "none"

MergeKeys == {"a", "b"}
MergeValues == {"1", "2"}
\* what the Payload column of a row holds before the calls
StoredPayloads == {PayloadNull, PayloadBad, json_dumps(EmptyMap),
                   json_dumps(<< <<"llm", "openai">> >>)}
\* the ids a caller passes: the rows of the table and one past them
CallIds(table) == 1..(Len(table) + 1)

InitStore ==
  /\ contact_queue \in
       { [i \in 1..MaxSubs |->
            [NewRow("Claim", "Ann", "Ann", "ann@example.com", "1980-01-01",
                    "What is my deductible?", i) EXCEPT !.Payload = p[i]]] :
         p \in [1..MaxSubs -> StoredPayloads] }
  /\ sess \in {[s \in Sessions |-> IF s = o THEN Idle ELSE NotOpen] : o \in Sessions}
  /\ outbox = << >>
  /\ Member_Data = MemberRows
  /\ baserun = << >>

returned(raises) == IF raises = "none" THEN "ok" ELSE raises

call_update_submission_payload(s) ==
  /\ sess[s].pc = "idle"
  /\ \E id \in CallIds(contact_queue), key \in MergeKeys, value \in MergeValues :
       /\ contact_queue' = update_submission_payload(contact_queue, id, key, value)
       /\ sess' = step(s, [Idle EXCEPT !.id = id, !.call = "update_submission_payload",
                             !.result = returned(update_submission_payload_raises(contact_queue, id))])
  /\ UNCHANGED <<outbox, baserun, Member_Data>>

call_update_submission(s) ==
  /\ sess[s].pc = "idle"
  /\ \E id \in CallIds(contact_queue) :
       /\ contact_queue' = update_submission(contact_queue, id, "Status", "Closed")
       /\ sess' = step(s, [Idle EXCEPT !.id = id, !.call = "update_submission",
                             !.result = returned(update_submission_raises(contact_queue, id))])
  /\ UNCHANGED <<outbox, baserun, Member_Data>>

NextStore ==
  \E s \in Sessions :
    \/ call_update_submission_payload(s)
    \/ call_update_submission(s)

SpecStore == InitStore /\ [][NextStore]_vars

\* ------------------------------------------------------------------ properties
Ids == DOMAIN contact_queue
row(i) == contact_queue[i]
\* session s takes this step
acts(s) == sess'[s] # sess[s]
GetPcs == {"L103", "L104", "L105", "L106_select", "L106_update", "L107_select", "L107_update"}
emails_to(box, i) == Cardinality({k \in DOMAIN box : box[k].id = i})

\* C1: in every reachable state every submission whose status is Closed has a
\* non-empty final_response.
C1_ClosedHasFinalResponse ==
  \A i \in Ids : row(i).Status = "Closed" => truthy(row(i).Final_Response)

\* C2: the status of a submission only moves New -> Processed -> Closed: no step
\* takes it back to an earlier status and none takes it from New to Closed.
C2_StatusOnlyAdvances ==
  [][\A i \in Ids :
       contact_queue'[i].Status # row(i).Status =>
         <<row(i).Status, contact_queue'[i].Status>> \in
           {<<"New", "Processed">>, <<"Processed", "Closed">>}]_vars

\* C3: a fetchAnswer invoked on a submission whose status is not New leaves
\* raw_response, final_prompt, status and payload of the submission unchanged.
C3_FetchOnlyWhenNew ==
  [][\A s \in Sessions :
       (acts(s) /\ sess[s].pc \in GetPcs /\ sess[s].status0 # "New") =>
         LET i == sess[s].id
         IN /\ contact_queue'[i].Contact_Response = row(i).Contact_Response
            /\ contact_queue'[i].Final_Prompt = row(i).Final_Prompt
            /\ contact_queue'[i].Status = row(i).Status
            /\ contact_queue'[i].Payload = row(i).Payload]_vars

\* C4: a closeSubmission invoked while the stored final_response is empty sends
\* no e-mail and leaves the status unchanged.
C4_NoCloseWithoutFinalResponse ==
  [][\A s \in Sessions :
       /\ (acts(s) /\ sess[s].pc = "form" /\ sess'[s].pc = "L53"
             /\ ~truthy(row(sess[s].id).Final_Response)) =>
            contact_queue'[sess[s].id].Status = row(sess[s].id).Status
       /\ (acts(s) /\ sess[s].pc = "L53" /\ ~truthy(row(sess[s].id).Final_Response)) =>
            outbox' = outbox]_vars

\* C5: a submitReview invoked on a submission that is not Processed, or whose
\* final_response is already set, changes neither final_response nor evaluation.
C5_ReviewOnlyWhenProcessedUnreviewed ==
  [][\A s \in Sessions :
       (acts(s) /\ sess[s].pc = "form" /\ sess'[s].pc = "L134"
          /\ (row(sess[s].id).Status # "Processed"
                \/ truthy(row(sess[s].id).Final_Response))) =>
         /\ contact_queue'[sess[s].id].Final_Response = row(sess[s].id).Final_Response
         /\ contact_queue'[sess[s].id].Evaluation = row(sess[s].id).Evaluation]_vars

\* C6: Closed is terminal: no step changes a field of a Closed submission, and a
\* closeSubmission on a Closed submission sends no further closure e-mail.
C6_ClosedIsTerminal ==
  [][\A i \in Ids :
       row(i).Status = "Closed" =>
         /\ contact_queue'[i] = row(i)
         /\ \A s \in Sessions :
              (acts(s) /\ sess[s].pc = "L53" /\ sess[s].id = i /\ sess[s].status0 = "Closed")
                => outbox' = outbox]_vars

\* C7: when the notification dispatch of a closeSubmission invoked on a Processed
\* submission fails, the status of the submission is not Closed after the failure:
\* it is still listed as open.
C7_FailedDispatchKeepsProcessed ==
  [][\A s \in Sessions :
       (acts(s) /\ sess[s].pc = "L53" /\ sess[s].status0 = "Processed"
          /\ sess'[s].result = "NotificationError") =>
         sess[s].id \in fetch_waiting_submissions(contact_queue')]_vars

\* C8: an observer of the record never sees a transition half done: raw_response
\* is never set while the status is still New, a Processed record always carries the
\* backend tag in its payload, and final_response is never set without evaluation.
C8_TransitionsAtomic ==
  \A i \in Ids :
    /\ row(i).Contact_Response # NULL => row(i).Status # "New"
    /\ row(i).Status = "Processed" => dict_has(row(i).Payload.map, "llm")
    /\ row(i).Final_Response # NULL => row(i).Evaluation # {}

\* C9: no interleaving of the read and write steps of concurrent mergePayload calls
\* on one submission drops a key: the write of a merge keeps every key stored.
C9_NoLostMerge ==
  [][\A s \in Sessions :
       (acts(s) /\ sess[s].pc \in {"L106_update", "L107_update"}) =>
         dict_keys(row(sess[s].id).Payload.map)
           \subseteq dict_keys(contact_queue'[sess[s].id].Payload.map)]_vars

\* C10: when loading the submission, retrieval or generation fails during
\* fetchAnswer, the handler ends without having written anything: the step that
\* fails leaves the table as it was and no earlier step of the handler wrote to it.
FetchFailures == {"KeyError", "RetrievalError", "GenerationError"}
C10_FailedFetchWritesNothing ==
  [][\A s \in Sessions :
       (acts(s) /\ sess[s].pc \in GetPcs \cup {"form"} /\ sess'[s].pc = "idle"
          /\ sess'[s].result \in FetchFailures) =>
         /\ contact_queue' = contact_queue
         /\ sess[s].wrote = {}]_vars

\* a fetchAnswer has failed on a submission that is still New and untouched
C10_Witness ==
  \E s \in Sessions :
    /\ sess[s].pc = "idle" /\ sess[s].result \in {"RetrievalError", "GenerationError"}
    /\ sess[s].id \in Ids
    /\ row(sess[s].id).Status = "New"
    /\ row(sess[s].id).Contact_Response = NULL
\* the map a Payload column reads as
payload_map(p) == IF p.kind = "json" THEN json_loads(p) ELSE EmptyMap

\* C11: on a row whose payload is empty or parseable, merging key a and then a
\* different key b leaves a payload that holds both values and every key it held
\* before; merging b first and a second leaves the same map; and merging the same
\* key and value a second time changes nothing.
C11_SequentialMergesKeepKeys ==
  \A i \in Ids :
    row(i).Payload.kind # "bad" =>
      \A a \in MergeKeys, b \in MergeKeys, v \in MergeValues, w \in MergeValues :
        a # b =>
          LET t_a == update_submission_payload(contact_queue, i, a, v)
              t_ab == update_submission_payload(t_a, i, b, w)
              t_ba == update_submission_payload(
                        update_submission_payload(contact_queue, i, b, w), i, a, v)
              m == payload_map(t_ab[i].Payload)
              m0 == payload_map(row(i).Payload)
          IN /\ t_ab[i].Payload.kind = "json"
             /\ dict_has(m, a) /\ dict_get(m, a) = v
             /\ dict_has(m, b) /\ dict_get(m, b) = w
             /\ dict_keys(m) = dict_keys(m0) \cup {a, b}
             /\ \A k \in dict_keys(m0) \ {a, b} : dict_get(m, k) = dict_get(m0, k)
             /\ dict_eq(m, payload_map(t_ba[i].Payload))
             /\ update_submission_payload(t_a, i, a, v) = t_a

\* two calls have merged a and then b into a payload that was empty
C11_Witness ==
  \E i \in Ids, s \in Sessions :
    /\ sess[s].call = "update_submission_payload" /\ sess[s].result = "ok"
    /\ sess[s].id = i
    /\ row(i).Payload = json_dumps(<< <<"a", "1">>, <<"b", "2">> >>)

\* C12: no step of any operation removes a key from a submission's payload, and a
\* key keeps its value unless the step is a merge of that same key.
C12_PayloadKeysNeverShrink ==
  [][\A i \in Ids :
       LET m == payload_map(row(i).Payload)
           m2 == payload_map(contact_queue'[i].Payload)
       IN /\ dict_keys(m) \subseteq dict_keys(m2)
          /\ \A k \in dict_keys(m) :
               dict_get(m2, k) # dict_get(m, k) =>
                 \E s \in Sessions :
                   /\ acts(s) /\ sess[s].id = i
                   /\ sess[s].pc \in {"L106_update", "L107_update"}
                   /\ payload_key(sess[s]) = k]_vars

\* C13: a merge on a row whose stored payload is not parseable JSON returns
\* without an exception and leaves a parseable payload that holds the merged key
\* and nothing else.
C13_UnparseablePayloadRecovered ==
  [][\A s \in Sessions :
       ( /\ acts(s) /\ sess'[s].call = "update_submission_payload"
         /\ sess'[s].id \in Ids
         /\ row(sess'[s].id).Payload.kind = "bad" )
       => /\ sess'[s].result = "ok"
          /\ contact_queue'[sess'[s].id].Payload.kind = "json"
          /\ Cardinality(dict_keys(payload_map(contact_queue'[sess'[s].id].Payload))) = 1]_vars

\* C14: with one operation at a time, a fetch invoked on a New submission stores
\* the generation's text as Contact_Response (line 103) and the prompt it sent as
\* Final_Prompt (line 104), its later steps leave both as stored, and the step that
\* completes it leaves Status Processed, a response and a trace id that come from
\* the same generation call, and a payload holding llm = openai and that trace id.
C14_FetchPostcondition ==
  [][\A s \in Sessions :
       (acts(s) /\ sess[s].pc \in GetPcs /\ sess[s].status0 = "New") =>
         LET r == row(sess[s].id)
             r2 == contact_queue'[sess[s].id]
             m2 == payload_map(r2.Payload)
         IN /\ sess[s].pc = "L103" => r2.Contact_Response = sess[s].response
            /\ sess[s].pc = "L104" =>
                  /\ r2.Final_Prompt = sess[s].prompt
                  /\ sess[s].prompt = get_rag_prompt(<<r2.Final_Prompt[3]>>, r2.Final_Prompt[4],
                                                     r.Contact_Question)
            /\ sess[s].pc \notin {"L103", "L104"} =>
                  /\ r2.Contact_Response = r.Contact_Response
                  /\ r2.Final_Prompt = r.Final_Prompt
            /\ sess[s].pc = "L107_update" =>
                  /\ sess'[s].result = "ok"
                  /\ r2.Status = "Processed"
                  /\ <<r2.Contact_Response, sess[s].trace_id>> \in Generations
                  /\ r2.Final_Prompt # << >>
                  /\ dict_has(m2, "llm") /\ dict_get(m2, "llm") = "openai"
                  /\ dict_has(m2, "trace_id")
                  /\ dict_get(m2, "trace_id") = sess[s].trace_id]_vars

\* a fetch on a New submission has completed and stored a non-empty answer
C14_Witness ==
  \E s \in Sessions :
    /\ sess[s].pc = "idle" /\ sess[s].result = "ok" /\ sess[s].id \in Ids
    /\ row(sess[s].id).Status = "Processed"
    /\ row(sess[s].id).Contact_Response = "answer1"
    /\ row(sess[s].id).Final_Response = NULL
    /\ dict_has(payload_map(row(sess[s].id).Payload), "trace_id")

\* C15: with one operation at a time, a review of a Processed submission changes
\* the table in two writes only, Final_Response to the text submitted and Evaluation
\* to the score submitted; when it completes the row holds both, its Status is
\* still Processed, and no other column of any row has changed.
C15_ReviewWritesOnlyReview ==
  [][\A s \in Sessions :
       (acts(s) /\ sess[s].id \in Ids /\ row(sess[s].id).Status = "Processed") =>
         /\ (sess[s].pc = "form" /\ sess'[s].pc = "L134") =>
              contact_queue' =
                [contact_queue EXCEPT ![sess[s].id].Final_Response = sess'[s].final]
         /\ (sess[s].pc = "L134" /\ sess'[s].pc = "L137") =>
              contact_queue' =
                [contact_queue EXCEPT ![sess[s].id].Evaluation = sess[s].slider]
         /\ sess[s].pc = "L137" =>
              /\ contact_queue' = contact_queue
              /\ sess'[s].result = "ok"
              /\ row(sess[s].id).Final_Response = sess[s].final
              /\ row(sess[s].id).Evaluation = sess[s].slider
              /\ sess[s].slider # {}]_vars

\* a review has completed on a Processed submission
C15_Witness ==
  \E s \in Sessions :
    /\ sess[s].pc = "idle" /\ sess[s].result = "ok" /\ sess[s].id \in Ids
    /\ row(sess[s].id).Status = "Processed"
    /\ row(sess[s].id).Final_Response = "final1"
    /\ row(sess[s].id).Evaluation # {}
    /\ baserun # << >>

\* C16: with one operation at a time, a closure of a Processed submission that has
\* a final response hands exactly one e-mail to the mail service, its body holds
\* the recipient's name, the question and the final response, and the e-mail has
\* been handed over by the time the stored Status becomes Closed.
C16_SendBeforeClosed ==
  [][\A s \in Sessions :
       ( /\ acts(s) /\ sess[s].id \in Ids
         /\ truthy(row(sess[s].id).Final_Response) ) =>
         LET i == sess[s].id
         IN /\ (row(i).Status = "Processed" /\ contact_queue'[i].Status = "Closed") =>
                 emails_to(outbox', i) = 1
            /\ (sess[s].pc = "L53" /\ sess'[s].result = "ok") =>
                 outbox' = Append(outbox,
                   [id |-> i,
                    body |-> << row(i).Contact_Fname, row(i).Contact_Lname,
                                row(i).Contact_Question, row(i).Final_Response >>])]_vars

\* C17: a review hands exactly one event to the telemetry service: the tagged
\* event, with the score and the payload's trace id, when the payload the handler
\* parsed has llm = openai and only then; otherwise the generic event with the
\* model name, the submission's prompt, the response submitted and the score.
C17_TelemetryShape ==
  [][\A s \in Sessions :
       (acts(s) /\ sess[s].pc = "L137") =>
         \E e \in {baserun'[Len(baserun')]} :
           /\ baserun' = Append(baserun, e)
           /\ e[1] \in {"tag", "generic"}
           /\ e[1] = "tag" <=> ( /\ dict_has(sess[s].payload, "llm")
                                 /\ dict_get(sess[s].payload, "llm") = "openai" )
           /\ e[1] = "tag" => e[2] = sess[s].slider /\ e[3] = sess[s].payload
           /\ e[1] = "generic" =>
                /\ e[2] = model_name
                /\ e[3] = row(sess[s].id).Final_Prompt
                /\ e[4] = sess[s].final
                /\ e[5] = sess[s].slider]_vars

\* C18: the stored Evaluation of every submission is absent or one integer from 1
\* to 5, and it is written only by a review handler that has already written
\* Final_Response.
C18_EvaluationRange ==
  [][\A i \in DOMAIN contact_queue' :
       LET e == contact_queue'[i].Evaluation
       IN /\ e \subseteq slider_min..slider_max
          /\ Cardinality(e) <= 1
          /\ (i \in Ids /\ e # row(i).Evaluation) =>
               \E s \in Sessions :
                 /\ acts(s) /\ sess[s].id = i /\ sess[s].pc = "L134"
                 /\ "Final_Response" \in sess[s].wrote
                 /\ e = sess[s].slider /\ e # {}]_vars

\* a review has stored the highest score
C18_Witness ==
  \E i \in Ids : row(i).Evaluation = {slider_max} /\ row(i).Final_Response # NULL

\* C19: a merge called with an id the table does not hold ends with the not-found
\* error (ValueError) and leaves the table as it was, with no row added and no
\* payload of another row changed.
C19_MergeMissingIdFails ==
  [][\A s \in Sessions :
       ( /\ acts(s) /\ sess'[s].call = "update_submission_payload"
         /\ sess'[s].id \notin Ids )
       => /\ sess'[s].result = "ValueError"
          /\ contact_queue' = contact_queue]_vars

\* a merge has been called with an id past the rows of a table that holds a payload
C19_Witness ==
  \E s \in Sessions :
    /\ sess[s].call = "update_submission_payload" /\ sess[s].id \notin Ids
    /\ sess[s].result = "ValueError"
    /\ \E i \in Ids : row(i).Payload.kind = "json"

\* C20: an update of a column called with an id the table does not hold ends with
\* a not-found error reported to the caller and leaves the table as it was.
C20_UpdateMissingIdFails ==
  [][\A s \in Sessions :
       ( /\ acts(s) /\ sess'[s].call = "update_submission"
         /\ sess'[s].id \notin Ids )
       => /\ sess'[s].result \notin {"ok", "none"}
          /\ contact_queue' = contact_queue]_vars

\* C21: the listing holds exactly the submissions whose Status is New or
\* Processed, and a submission that has left the listing (its stored Status is
\* Closed) is not listed again after any later step.
C21_ListOpen ==
  [][/\ fetch_waiting_submissions(contact_queue') =
          {i \in DOMAIN contact_queue' : contact_queue'[i].Status \in {"New", "Processed"}}
     /\ \A i \in Ids :
          i \notin fetch_waiting_submissions(contact_queue) =>
            i \notin fetch_waiting_submissions(contact_queue')]_vars

\* C22: in every state a Processed or Closed submission has a Contact_Response, a
\* Final_Prompt and a Processed_Date, and a New submission has no Contact_Response
\* and no Processed_Date.
C22_ProcessedHasAnswerAndTime ==
  \A i \in Ids :
    /\ row(i).Status \in {"Processed", "Closed"} =>
         /\ row(i).Contact_Response # NULL
         /\ row(i).Final_Prompt # << >>
         /\ row(i).Processed_Date # {}
    /\ row(i).Status = "New" =>
         /\ row(i).Contact_Response = NULL
         /\ row(i).Processed_Date = {}

\* C23: a step that adds a row adds exactly one, at the end of the table, with
\* contact type, first name, last name, e-mail and question all non-empty, with
\* the creation time of the intake, Status New and every answer, review and
\* payload column empty; the other rows are as before and the new row is listed.
C23_CreateInsertsNew ==
  [][Len(contact_queue') # Len(contact_queue) =>
       \E contact_type \in ContactTypes \ {""}, fname \in Names \ {""},
          lname \in Names \ {""}, email \in Emails \ {""},
          dob \in DatesOfBirth, comment \in Questions \ {""} :
         /\ contact_queue' = Append(contact_queue,
              [ Contact_Type |-> contact_type, Contact_Fname |-> fname,
                Contact_Lname |-> lname, Contact_Email |-> email, Contact_DOB |-> dob,
                Contact_Question |-> comment, Creation_Date |-> Len(contact_queue) + 1,
                Status |-> "New", Contact_Response |-> NULL, Final_Prompt |-> << >>,
                Final_Response |-> NULL, Evaluation |-> {}, Processed_Date |-> {},
                Payload |-> PayloadNull ])
         /\ Len(contact_queue') \in fetch_waiting_submissions(contact_queue')]_vars

\* the intake has inserted a submission that nothing has touched yet
C23_Witness ==
  \E i \in Ids :
    /\ row(i).Status = "New" /\ truthy(row(i).Contact_Question)
    /\ row(i).Contact_Response = NULL /\ row(i).Final_Response = NULL
    /\ i \in fetch_waiting_submissions(contact_queue)

\* C24: no step changes the id, the contact type, the names, the e-mail, the date
\* of birth, the question or the creation time of a submission that exists, and no
\* step changes the member reference table.
C24_IdentityImmutable ==
  [][/\ Member_Data' = Member_Data
     /\ \A i \in Ids :
          /\ i \in DOMAIN contact_queue'
          /\ contact_queue'[i].Contact_Type = row(i).Contact_Type
          /\ contact_queue'[i].Contact_Fname = row(i).Contact_Fname
          /\ contact_queue'[i].Contact_Lname = row(i).Contact_Lname
          /\ contact_queue'[i].Contact_Email = row(i).Contact_Email
          /\ contact_queue'[i].Contact_DOB = row(i).Contact_DOB
          /\ contact_queue'[i].Contact_Question = row(i).Contact_Question
          /\ contact_queue'[i].Creation_Date = row(i).Creation_Date]_vars

\* a submission has been fetched with the member's data, reviewed and closed
C24_Witness ==
  \E i \in Ids :
    /\ row(i).Status = "Closed" /\ row(i).Evaluation # {}
    /\ row(i).Final_Prompt # << >> /\ row(i).Final_Prompt[4] = "member"
    /\ dict_has(payload_map(row(i).Payload), "trace_id")
    /\ outbox # << >>

\* C25: the passages a fetch puts into its prompt are the head of the list the
\* retrieval returned, in the list's order, and at most similarity_top_k of them;
\* when the list is empty the context is empty, and the fetch still goes on to
\* store Status Processed.
C25_ContextCappedEmptyOk ==
  [][\A s \in Sessions :
       acts(s) =>
         /\ (sess[s].pc = "form" /\ sess'[s].pc = "L103") =>
              LET c == sess'[s].contexts_list
                  used == IF sess'[s].prompt[3] = "" THEN << >> ELSE << sess'[s].prompt[3] >>
              IN /\ Len(c) <= similarity_top_k
                 /\ Len(used) <= similarity_top_k
                 /\ used = SubSeq(c, 1, Len(used))
                 /\ c = << >> => sess'[s].prompt[3] = ""
         /\ (sess[s].pc = "L105" /\ row(sess[s].id).Final_Prompt[3] = "") =>
              /\ sess'[s].pc = "L106_select"
              /\ contact_queue'[sess[s].id].Status = "Processed"]_vars

\* a fetch whose retrieval returned nothing has completed with an answer
C25_Witness ==
  \E s \in Sessions :
    /\ sess[s].pc = "idle" /\ sess[s].result = "ok" /\ sess[s].id \in Ids
    /\ row(sess[s].id).Status = "Processed"
    /\ row(sess[s].id).Final_Prompt # << >>
    /\ row(sess[s].id).Final_Prompt[3] = ""
    /\ row(sess[s].id).Contact_Response = "answer1"

C27_EmailFromStoredResponse ==
  [][\A s \in Sessions :
       acts(s) =>
         /\ (sess[s].pc = "form" /\ sess'[s].pc = "L53") =>
              return_template(sess[s].submission_details,
                              sess[s].submission_details.Final_Response)[4]
                = contact_queue'[sess[s].id].Final_Response
         /\ (sess[s].pc = "L53" /\ sess'[s].result = "ok") =>
              /\ outbox' # << >>
              /\ outbox'[Len(outbox')].body[4] = sess[s].submission_details.Final_Response]_vars

\* C28: when two sessions have each completed a review of the same submission,
\* the stored Final_Response and Evaluation are the text and the score of one of
\* the two reviews.
C28_ReviewPairFromOneCall ==
  \A i \in Ids : \A s \in Sessions, t \in Sessions :
    ( /\ s # t
      /\ sess[s].pc = "idle" /\ sess[s].result = "ok" /\ sess[s].slider # {}
      /\ sess[t].pc = "idle" /\ sess[t].result = "ok" /\ sess[t].slider # {}
      /\ sess[s].id = i /\ sess[t].id = i
      /\ \A u \in Sessions : sess[u].pc \notin {"L134", "L137"} )
    => \/ row(i).Final_Response = sess[s].final /\ row(i).Evaluation = sess[s].slider
       \/ row(i).Final_Response = sess[t].final /\ row(i).Evaluation = sess[t].slider

\* C29: whenever the payload of a submission holds a trace_id, the stored
\* Contact_Response is the text of the generation call that returned this trace
\* id, and a fetch takes its response and its trace id from one generation call.
C29_TraceMatchesResponse ==
  /\ \A i \in Ids :
       dict_has(payload_map(row(i).Payload), "trace_id") =>
         << row(i).Contact_Response,
            dict_get(payload_map(row(i).Payload), "trace_id") >> \in Generations
  /\ \A s \in Sessions :
       sess[s].pc = "L103" => << sess[s].response, sess[s].trace_id >> \in Generations

====
